---- MODULE Spec2Model ----
(***************************************************************************)
(* crankshaft-tui: the task registry and key/tick state machine (app.rs),  *)
(* the background event producer and its channel (event.rs), the           *)
(* application loop (lib.rs, run_app) and the process entry (main.rs).     *)
(***************************************************************************)
EXTENDS Integers, Sequences, FiniteSets, TLC

(***************************************************************************)
(* Bounds of the model.                                                    *)
(***************************************************************************)
\* events the producer may put on the channel before it is descheduled
MaxEmit == 3
\* the tick period, in model time units (250 ms in main.rs)
TickRate == 2
\* largest registry of the hand-built registries of RegistrySpec
MaxTasks == 3
\* calls of update a caller of AppSpec makes
MaxUpdates == 100
\* calls of update a caller of RegistrySpec makes
MaxRegUpdates == 2

\* the clock of the producer is tracked up to this elapsed time
MaxElapsed == TickRate + 1

(***************************************************************************)
(* f64 arithmetic.  Every f64 the program computes for a progress value is *)
(* 0.0 or lies in [2^-7, 2), hence is a multiple of 2^-59.  A value is     *)
(* kept as three limbs <<hi, mid, lo>> of 20 bits counting units of 2^-59, *)
(* and an addition is the exact sum rounded to 53 significant bits, ties   *)
(* to even, as IEEE 754 does.                                              *)
(***************************************************************************)
Limb == 1048576

F64Zero == <<0, 0, 0>>
F64One == <<524288, 0, 0>>
\* the literal 0.01 of `task.progress += 0.01`
Step == <<5242, 922746, 922747>>
\* the literal 0.99
F64_0_99 == <<519045, 125829, 125824>>
\* the literal 0.991 (the clamp example)
F64_0_991 == <<519569, 427819, 8384>>

\* (d as f64 % 10.0) / 10.0 for d in 0..9
Tenth(d) ==
    CASE d = 0 -> <<0, 0, 0>>
      [] d = 1 -> <<52428, 838860, 838864>>
      [] d = 2 -> <<104857, 629145, 629152>>
      [] d = 3 -> <<157286, 419430, 419424>>
      [] d = 4 -> <<209715, 209715, 209728>>
      [] d = 5 -> <<262144, 0, 0>>
      [] d = 6 -> <<314572, 838860, 838848>>
      [] d = 7 -> <<367001, 629145, 629120>>
      [] d = 8 -> <<419430, 419430, 419456>>
      [] d = 9 -> <<471859, 209715, 209728>>

\* a >= b
F64Ge(a, b) ==
    \/ a[1] > b[1]
    \/ a[1] = b[1] /\ a[2] > b[2]
    \/ a[1] = b[1] /\ a[2] = b[2] /\ a[3] >= b[3]

\* the exact sum of two limb triples
LimbSum(a, b) ==
    LET lo == a[3] + b[3]
        mid == a[2] + b[2] + (lo \div Limb)
        hi == a[1] + b[1] + (mid \div Limb)
    IN  <<hi, mid % Limb, lo % Limb>>

\* the spacing of f64 values around x, in units of 2^-59
Ulp(x) ==
    CASE x[1] >= 1048576 -> 256
      [] x[1] >= 524288 /\ x[1] < 1048576 -> 128
      [] x[1] >= 262144 /\ x[1] < 524288 -> 64
      [] x[1] >= 131072 /\ x[1] < 262144 -> 32
      [] x[1] >= 65536 /\ x[1] < 131072 -> 16
      [] x[1] >= 32768 /\ x[1] < 65536 -> 8
      [] x[1] >= 16384 /\ x[1] < 32768 -> 4
      [] x[1] >= 8192 /\ x[1] < 16384 -> 2
      [] x[1] < 8192 -> 1

\* round to nearest, ties to even
F64Round(x) ==
    LET q == Ulp(x)
        r == x[3] % q
        down == <<x[1], x[2], x[3] - r>>
        odd == ((x[3] - r) \div q) % 2 = 1
    IN  IF 2 * r > q \/ (2 * r = q /\ odd)
        THEN LimbSum(down, <<0, 0, q>>)
        ELSE down

F64Add(a, b) == F64Round(LimbSum(a, b))

(***************************************************************************)
(* The program's state.                                                    *)
(***************************************************************************)
VARIABLES
    tasks,              \* App.tasks: id -> [status, progress]
    selected_task_id,   \* App.selected_task_id: None or an id
    task_ids,           \* App.task_ids: the ordered ids
    should_quit,        \* App.should_quit
    tab_index,          \* App.tab_index
    mainPc,             \* where the main thread is (main.rs, run_app)
    run_result,         \* what run_app returned: "none", "Ok" or "Err"
    main_result,        \* what main returned: "none", "Ok" or "Err"
    raw_mode,           \* the terminal is in raw mode
    restore_calls,      \* calls of restore_terminal so far
    producerPc,         \* where the thread spawned by EventHandler::new is
    elapsed,            \* last_tick.elapsed(), in time units, capped at MaxElapsed
    timeout,            \* the local `timeout` of the producer
    chan,               \* the events in the mpsc channel, oldest first
    senders,            \* live Sender handles of the channel
    receiver,           \* the Receiver is alive
    emitted,            \* history: the events sent, in order
    processed,          \* history: the events the loop has matched on, in order
    update_calls,       \* history: calls of App::update so far
    read_kind,          \* history: the kind of event that event::read returned in this pass of the loop
    last_key,           \* history: the key of the last call of App::handle_key
    key_flip,           \* history: flips at every call of App::handle_key
    renders_since,      \* history: terminal.draw calls since the last processed event
    last_frame          \* history: the App a frame was last drawn from, <<>> if none

appVars == <<tasks, selected_task_id, task_ids, should_quit, tab_index>>
mainVars == <<mainPc, run_result, main_result, raw_mode, restore_calls>>
producerVars == <<producerPc, elapsed, timeout>>
chanVars == <<chan, senders, receiver>>
histVars == <<emitted, read_kind, processed, update_calls, last_key, key_flip, renders_since, last_frame>>
vars == <<tasks, selected_task_id, task_ids, should_quit, tab_index,
          mainPc, run_result, main_result, raw_mode, restore_calls,
          producerPc, elapsed, timeout, chan, senders, receiver,
          emitted, read_kind, processed, update_calls, last_key, key_flip, renders_since,
          last_frame>>

\* the id "task-i" is the integer i; Option::None is 0
None == 0

TaskStatus == {"Pending", "Running", "Completed", "Failed"}

\* KeyCode as handle_key tells them apart; "Other" is any key of the `_` arm
KeyCode == {"q", "Esc", "Tab", "BackTab", "Down", "Up", "Other"}

\* the sample tasks of App::default: i in 1..20
NumTasks == 19

DefaultStatus(i) ==
    CASE i % 4 = 0 -> "Pending"
      [] i % 4 = 1 -> "Running"
      [] i % 4 = 2 -> "Completed"
      [] i % 4 = 3 -> "Failed"

DefaultProgress(i) ==
    CASE DefaultStatus(i) = "Pending" -> F64Zero
      [] DefaultStatus(i) = "Running" -> Tenth(i % 10)
      [] DefaultStatus(i) = "Completed" -> F64One
      [] DefaultStatus(i) = "Failed" -> Tenth(i % 10)

DefaultTasks ==
    [i \in 1..NumTasks |-> [status |-> DefaultStatus(i), progress |-> DefaultProgress(i)]]

DefaultTaskIds == [i \in 1..NumTasks |-> i]

\* App::default
AppDefault ==
    /\ tasks = DefaultTasks
    /\ selected_task_id = None
    /\ task_ids = DefaultTaskIds
    /\ should_quit = FALSE
    /\ tab_index = 0

(***************************************************************************)
(* app.rs: the transitions of App.                                         *)
(***************************************************************************)
\* task_ids.iter().position(|x| x == id).unwrap_or(0), 0-based
PositionOr0(ids, id) ==
    IF \E j \in 1..Len(ids) : ids[j] = id
    THEN (CHOOSE j \in 1..Len(ids) : ids[j] = id /\ \A h \in 1..(j - 1) : ids[h] # id) - 1
    ELSE 0

CurrentIndex(ids, sel) == IF sel = None THEN 0 ELSE PositionOr0(ids, sel)

\* next_task without the wrap-around: the id after the current one, "task-(i+1)"
NextTaskNoWrap(ids, sel) ==
    IF Len(ids) = 0 THEN sel
    ELSE IF sel = None THEN ids[1] ELSE sel + 1

\* next_task that falls back to "task-1" instead of returning on an empty list
NextTaskNoEmptyCheck(ids, sel) ==
    IF Len(ids) = 0 THEN 1
    ELSE LET next_index == (CurrentIndex(ids, sel) + 1) % Len(ids)
         IN  ids[next_index + 1]

\* next_task that clears the selection after the last id instead of wrapping
NextTaskUnsetsAtEnd(ids, sel) ==
    IF Len(ids) = 0 THEN sel
    ELSE IF CurrentIndex(ids, sel) + 1 = Len(ids) THEN None
    ELSE ids[CurrentIndex(ids, sel) + 2]

\* App::next_task, as the new value of selected_task_id
NextTask(ids, sel) ==
    IF Len(ids) = 0 THEN sel
    ELSE LET next_index == (CurrentIndex(ids, sel) + 1) % Len(ids)
         IN  ids[next_index + 1]

\* previous_task that stops at index 0 instead of wrapping to the last index
PreviousTaskNoWrap(ids, sel) ==
    IF Len(ids) = 0 THEN sel
    ELSE LET current_index == CurrentIndex(ids, sel)
             previous_index == IF current_index = 0 THEN 0 ELSE current_index - 1
         IN  ids[previous_index + 1]

\* App::previous_task, as the new value of selected_task_id
PreviousTask(ids, sel) ==
    IF Len(ids) = 0 THEN sel
    ELSE LET current_index == CurrentIndex(ids, sel)
             previous_index == IF current_index = 0 THEN Len(ids) - 1 ELSE current_index - 1
         IN  ids[previous_index + 1]

\* update with `progress > 1.0` for `progress >= 1.0`
UpdateTaskStrict(task) ==
    IF task.status = "Running"
    THEN LET p == F64Add(task.progress, Step)
         IN  IF F64Ge(p, F64One) /\ p # F64One
             THEN [status |-> "Completed", progress |-> F64One]
             ELSE [status |-> "Running", progress |-> p]
    ELSE task

\* update without `task.progress = 1.0`
UpdateTaskNoClamp(task) ==
    IF task.status = "Running"
    THEN LET p == F64Add(task.progress, Step)
         IN  IF F64Ge(p, F64One)
             THEN [status |-> "Completed", progress |-> p]
             ELSE [status |-> "Running", progress |-> p]
    ELSE task

\* update with `task.status != Completed` for `task.status == Running`
UpdateTaskNotCompleted(task) ==
    IF task.status # "Completed"
    THEN LET p == F64Add(task.progress, Step)
         IN  IF F64Ge(p, F64One)
             THEN [status |-> "Completed", progress |-> F64One]
             ELSE [status |-> task.status, progress |-> p]
    ELSE task

\* update that also starts the Pending tasks
UpdateTaskStartsPending(task) ==
    IF task.status \in {"Running", "Pending"}
    THEN LET p == F64Add(task.progress, Step)
         IN  IF F64Ge(p, F64One)
             THEN [status |-> "Completed", progress |-> F64One]
             ELSE [status |-> "Running", progress |-> p]
    ELSE task

\* the body of the loop of App::update for one task
UpdateTask(task) ==
    IF task.status = "Running"
    THEN LET p == F64Add(task.progress, Step)
         IN  IF F64Ge(p, F64One)
             THEN [status |-> "Completed", progress |-> F64One]
             ELSE [status |-> "Running", progress |-> p]
    ELSE task

\* App::update
Update ==
    /\ tasks' = [id \in DOMAIN tasks |-> UpdateTask(tasks[id])]
    /\ update_calls' = update_calls + 1
    /\ UNCHANGED <<selected_task_id, task_ids, should_quit, tab_index, last_key, key_flip>>

\* handle_key that returns true for Tab as well
HandleKeyResultTab(code) == code \in {"q", "Esc", "Tab"}

\* the value App::handle_key returns
HandleKeyResult(code) == code \in {"q", "Esc"}

\* handle_key with the BackTab arm a copy of the Tab arm
HandleKeyBackTabForward(code) ==
    /\ should_quit' = IF code \in {"q", "Esc"} THEN TRUE ELSE should_quit
    /\ tab_index' = CASE code = "Tab" -> (tab_index + 1) % 3
                      [] code = "BackTab" -> (tab_index + 1) % 3
                      [] OTHER -> tab_index
    /\ selected_task_id' = CASE code = "Down" -> NextTask(task_ids, selected_task_id)
                             [] code = "Up" -> PreviousTask(task_ids, selected_task_id)
                             [] OTHER -> selected_task_id
    /\ last_key' = code
    /\ key_flip' = ~key_flip
    /\ UNCHANGED <<tasks, task_ids, update_calls>>

\* handle_key whose Tab arm also clears the selection
HandleKeyTabClearsSelection(code) ==
    /\ should_quit' = IF code \in {"q", "Esc"} THEN TRUE ELSE should_quit
    /\ tab_index' = CASE code = "Tab" -> (tab_index + 1) % 3
                      [] code = "BackTab" -> (tab_index + 2) % 3
                      [] OTHER -> tab_index
    /\ selected_task_id' = CASE code = "Down" -> NextTask(task_ids, selected_task_id)
                             [] code = "Up" -> PreviousTask(task_ids, selected_task_id)
                             [] code = "Tab" -> None
                             [] OTHER -> selected_task_id
    /\ last_key' = code
    /\ key_flip' = ~key_flip
    /\ UNCHANGED <<tasks, task_ids, update_calls>>

\* App::handle_key
HandleKey(code) ==
    /\ should_quit' = IF code \in {"q", "Esc"} THEN TRUE ELSE should_quit
    /\ tab_index' = CASE code = "Tab" -> (tab_index + 1) % 3
                      [] code = "BackTab" -> (tab_index + 2) % 3
                      [] OTHER -> tab_index
    /\ selected_task_id' = CASE code = "Down" -> NextTask(task_ids, selected_task_id)
                             [] code = "Up" -> PreviousTask(task_ids, selected_task_id)
                             [] OTHER -> selected_task_id
    /\ last_key' = code
    /\ key_flip' = ~key_flip
    /\ UNCHANGED <<tasks, task_ids, update_calls>>

(***************************************************************************)
(* AppSpec: an App built by App::default and driven through its public     *)
(* methods handle_key and update.                                          *)
(***************************************************************************)
\* no dashboard process: the threads, the channel and the terminal stay idle
NoProcess ==
    /\ mainPc = "none" /\ run_result = "none" /\ main_result = "none"
    /\ raw_mode = FALSE /\ restore_calls = 0
    /\ producerPc = "unborn" /\ elapsed = 0 /\ timeout = 0
    /\ chan = <<>> /\ senders = 0 /\ receiver = FALSE
    /\ emitted = <<>> /\ read_kind = "none" /\ processed = <<>> /\ update_calls = 0
    /\ last_key = "none" /\ key_flip = FALSE
    /\ renders_since = 0 /\ last_frame = <<>>

AppInit == AppDefault /\ NoProcess

CallHandleKey ==
    /\ mainPc = "none"
    /\ \E code \in KeyCode : HandleKey(code)
    /\ UNCHANGED <<mainVars, producerVars, chanVars, emitted, read_kind, processed,
                   renders_since, last_frame>>

CallUpdate(cap) ==
    /\ mainPc = "none"
    /\ update_calls < cap
    /\ Update
    /\ UNCHANGED <<mainVars, producerVars, chanVars, emitted, read_kind, processed,
                   renders_since, last_frame>>

AppNext == CallHandleKey \/ CallUpdate(MaxUpdates)

AppSpec == AppInit /\ [][AppNext]_vars

(***************************************************************************)
(* RegistrySpec: an App whose public fields a caller filled in by hand     *)
(* (at most MaxTasks tasks), driven through handle_key and update.         *)
(***************************************************************************)
TaskSamples ==
    { [status |-> "Pending", progress |-> F64Zero],
      [status |-> "Running", progress |-> Tenth(5)],
      [status |-> "Running", progress |-> F64_0_99],
      [status |-> "Running", progress |-> F64_0_991],
      [status |-> "Completed", progress |-> F64One],
      [status |-> "Failed", progress |-> Tenth(5)] }

RegistryInit ==
    /\ \E n \in 0..MaxTasks :
          /\ task_ids = [i \in 1..n |-> i]
          /\ tasks \in [1..n -> TaskSamples]
          /\ selected_task_id \in {None} \cup (1..n)
    /\ should_quit = FALSE
    /\ tab_index = 0
    /\ NoProcess

RegistryNext == CallHandleKey \/ CallUpdate(MaxRegUpdates)

RegistrySpec == RegistryInit /\ [][RegistryNext]_vars

(***************************************************************************)
(* event.rs: the channel and the producer thread of EventHandler::new.     *)
(***************************************************************************)
\* Event::Input(key) and Event::Tick
Input(code) == <<"Input", code>>
Tick == <<"Tick">>

\* what event::read() can return: a key event, another terminal event, an error
ReadOutcome == {<<"Key", code>> : code \in KeyCode} \cup {<<"Mouse">>, <<"Resize">>, <<"Err">>}

\* the pattern CrosstermEvent::Key(key) matches the outcome, it does not, or
\* there is no outcome
ReadKind(ev) == IF ev[1] \in {"Key", "Err"} THEN ev[1] ELSE "NotKey"

\* a channel that hands out the newest event first
ChanSendFront(q, e) == <<e>> \o q

\* mpsc::Sender::send: the channel after sending e (sending never blocks)
ChanSend(q, e) == Append(q, e)

\* mpsc::Receiver::recv: the event received from a non-empty channel, and the rest
ChanRecv(q) == Head(q)

RECURSIVE DropTicks(_)
DropTicks(q) == IF q # <<>> /\ Head(q) = Tick THEN DropTicks(Tail(q)) ELSE q

\* a receive that takes a whole run of queued Ticks as one
ChanRestCoalesce(q) == IF Head(q) = Tick THEN DropTicks(q) ELSE Tail(q)

ChanRest(q) == Tail(q)

\* the producer thread runs: the process lives, and the thread is given the
\* processor while it may still emit (MaxEmit) or the channel is closed
ProducerRuns ==
    /\ mainPc # "exit"
    /\ producerPc \in {"timeout", "poll", "read", "tick"}
    /\ (Len(emitted) < MaxEmit \/ ~receiver)

\* tick_rate - last_tick.elapsed(), unchecked
TimeoutUnchecked(e) == TickRate - e

\* tick_rate.checked_sub(last_tick.elapsed()).unwrap_or(Duration::from_secs(0))
Timeout(e) == IF TickRate - e >= 0 THEN TickRate - e ELSE 0

\* the clock after d more time units
Later(e, d) == IF e + d > MaxElapsed THEN MaxElapsed ELSE e + d

\* last_tick.elapsed() > tick_rate
TickDueStrict(e) == e > TickRate

\* a tick on every pass of the loop
TickDueAlways(e) == TRUE

\* last_tick.elapsed() >= tick_rate
TickDue(e) == e >= TickRate

\* time passes while the producer is between two statements
TimePasses ==
    /\ ProducerRuns
    /\ elapsed < MaxElapsed
    /\ elapsed' = elapsed + 1
    /\ UNCHANGED <<appVars, mainVars, producerPc, timeout, chanVars, histVars>>

\* let timeout = ...
ProducerTimeout ==
    /\ ProducerRuns
    /\ producerPc = "timeout"
    /\ timeout' = Timeout(elapsed)
    /\ producerPc' = "poll"
    /\ UNCHANGED <<appVars, mainVars, elapsed, chanVars, histVars>>

\* the thread unwinds from a panic or returns: its clone of the Sender is dropped
ProducerEnds(how) ==
    /\ producerPc' = how
    /\ senders' = senders - 1

\* event::poll(timeout).expect(..): an event after d <= timeout, none within
\* the timeout, or an error (panic)
ProducerPoll ==
    /\ ProducerRuns
    /\ producerPc = "poll"
    /\ \/ \E d \in 0..timeout :
             /\ elapsed' = Later(elapsed, d)
             /\ producerPc' = "read"
             /\ UNCHANGED senders
       \/ /\ elapsed' = Later(elapsed, timeout)
          /\ producerPc' = "tick"
          /\ UNCHANGED senders
       \/ /\ ProducerEnds("panicked")
          /\ UNCHANGED elapsed
    /\ UNCHANGED <<appVars, mainVars, timeout, chan, receiver, histVars>>

\* a producer that forwards every terminal event as an Input
ProducerReadForwardsAll ==
    /\ ProducerRuns
    /\ producerPc = "read"
    /\ \E ev \in ReadOutcome :
          /\ read_kind' = ReadKind(ev)
          /\ IF ev[1] = "Err"
             THEN /\ ProducerEnds("panicked")
                  /\ UNCHANGED <<chan, emitted>>
             ELSE IF receiver
             THEN LET code == IF ev[1] = "Key" THEN ev[2] ELSE "Other"
                  IN  /\ chan' = ChanSend(chan, Input(code))
                      /\ emitted' = Append(emitted, Input(code))
                      /\ producerPc' = "tick"
                      /\ UNCHANGED senders
             ELSE /\ ProducerEnds("returned")
                  /\ UNCHANGED <<chan, emitted>>
    /\ UNCHANGED <<appVars, mainVars, elapsed, timeout, receiver, processed,
                   update_calls, last_key, key_flip, renders_since, last_frame>>

\* a loop that polls again after an Input, and checks the tick deadline only
\* when no key was read
ProducerReadDrains ==
    /\ ProducerRuns
    /\ producerPc = "read"
    /\ \E ev \in ReadOutcome :
          /\ read_kind' = ReadKind(ev)
          /\ IF ev[1] = "Err"
             THEN /\ ProducerEnds("panicked")
                  /\ UNCHANGED <<chan, emitted>>
             ELSE IF ev[1] = "Key"
             THEN IF receiver
                  THEN /\ chan' = ChanSend(chan, Input(ev[2]))
                       /\ emitted' = Append(emitted, Input(ev[2]))
                       /\ producerPc' = "timeout"
                       /\ UNCHANGED senders
                  ELSE /\ ProducerEnds("returned")
                       /\ UNCHANGED <<chan, emitted>>
             ELSE /\ producerPc' = "tick"
                  /\ UNCHANGED <<chan, emitted, senders>>
    /\ UNCHANGED <<appVars, mainVars, elapsed, timeout, receiver, processed,
                   update_calls, last_key, key_flip, renders_since, last_frame>>

\* if let CrosstermEvent::Key(key) = event::read().expect(..) { send Input(key) }
ProducerRead ==
    /\ ProducerRuns
    /\ producerPc = "read"
    /\ \E ev \in ReadOutcome :
          /\ read_kind' = ReadKind(ev)
          /\ IF ev[1] = "Err"
             THEN /\ ProducerEnds("panicked")
                  /\ UNCHANGED <<chan, emitted>>
             ELSE IF ev[1] = "Key"
             THEN IF receiver
                  THEN /\ chan' = ChanSend(chan, Input(ev[2]))
                       /\ emitted' = Append(emitted, Input(ev[2]))
                       /\ producerPc' = "tick"
                       /\ UNCHANGED senders
                  ELSE /\ ProducerEnds("returned")
                       /\ UNCHANGED <<chan, emitted>>
             ELSE /\ producerPc' = "tick"
                  /\ UNCHANGED <<chan, emitted, senders>>
    /\ UNCHANGED <<appVars, mainVars, elapsed, timeout, receiver, processed,
                   update_calls, last_key, key_flip, renders_since, last_frame>>

\* a producer that applies the tick to the tasks itself
ProducerTickUpdates ==
    /\ ProducerRuns
    /\ producerPc = "tick"
    /\ IF TickDue(elapsed)
       THEN IF receiver
            THEN /\ chan' = ChanSend(chan, Tick)
                 /\ emitted' = Append(emitted, Tick)
                 /\ elapsed' = 0
                 /\ producerPc' = "timeout"
                 /\ tasks' = [id \in DOMAIN tasks |-> UpdateTask(tasks[id])]
                 /\ UNCHANGED senders
            ELSE /\ ProducerEnds("returned")
                 /\ UNCHANGED <<chan, emitted, elapsed, tasks>>
       ELSE /\ producerPc' = "timeout"
            /\ UNCHANGED <<chan, emitted, elapsed, senders, tasks>>
    /\ read_kind' = "none"
    /\ UNCHANGED <<selected_task_id, task_ids, should_quit, tab_index, mainVars, timeout,
                   receiver, processed, update_calls, last_key, key_flip, renders_since,
                   last_frame>>

\* if last_tick.elapsed() >= tick_rate { send Tick; last_tick = Instant::now() }
ProducerTick ==
    /\ ProducerRuns
    /\ producerPc = "tick"
    /\ IF TickDue(elapsed)
       THEN IF receiver
            THEN /\ chan' = ChanSend(chan, Tick)
                 /\ emitted' = Append(emitted, Tick)
                 /\ elapsed' = 0
                 /\ producerPc' = "timeout"
                 /\ UNCHANGED senders
            ELSE /\ ProducerEnds("returned")
                 /\ UNCHANGED <<chan, emitted, elapsed>>
       ELSE /\ producerPc' = "timeout"
            /\ UNCHANGED <<chan, emitted, elapsed, senders>>
    /\ read_kind' = "none"
    /\ UNCHANGED <<appVars, mainVars, timeout, receiver, processed,
                   update_calls, last_key, key_flip, renders_since, last_frame>>

ProducerNext == TimePasses \/ ProducerTimeout \/ ProducerPoll \/ ProducerRead \/ ProducerTick

(***************************************************************************)
(* main.rs and lib.rs: the main thread.                                    *)
(***************************************************************************)
\* init_terminal()?: it succeeds, or fails before or after raw mode is on
MainInitTerminal ==
    /\ mainPc = "init_terminal"
    /\ \E outcome \in {"ok", "raw_mode_failed", "screen_failed"} :
          /\ raw_mode' = (outcome # "raw_mode_failed")
          /\ mainPc' = IF outcome = "ok" THEN "EventHandler_new" ELSE "exit"
          /\ main_result' = IF outcome = "ok" THEN main_result ELSE "Err"
    /\ UNCHANGED <<appVars, run_result, restore_calls, producerVars, chanVars, histVars>>

\* EventHandler::new(tick_rate): the channel, the Sender cloned for the
\* thread, the thread with last_tick = Instant::now()
RunAppStart ==
    /\ mainPc = "EventHandler_new"
    /\ chan' = <<>>
    /\ senders' = 2
    /\ receiver' = TRUE
    /\ producerPc' = "timeout"
    /\ elapsed' = 0
    /\ mainPc' = "draw"
    /\ UNCHANGED <<appVars, run_result, main_result, raw_mode, restore_calls, timeout, histVars>>

\* run_app returns: event_handler goes out of scope, which drops its Sender,
\* the Receiver and whatever the channel still holds
DropEventHandler ==
    /\ receiver' = FALSE
    /\ senders' = senders - 1
    /\ chan' = <<>>

\* main's `run_app(..)?;`: where main goes with the result of run_app
MainAfterRunApp(result) ==
    /\ run_result' = result
    /\ mainPc' = IF result = "Ok" THEN "restore_terminal" ELSE "exit"
    /\ main_result' = IF result = "Ok" THEN main_result ELSE "Err"

\* a draw that keeps showing the frame it built first
RunAppDrawCached ==
    /\ mainPc = "draw"
    /\ renders_since' = renders_since + 1
    /\ last_frame' = IF last_frame = <<>> THEN appVars ELSE last_frame
    /\ \E drawn \in BOOLEAN :
          IF drawn
          THEN /\ mainPc' = "next"
               /\ UNCHANGED <<run_result, main_result, chanVars>>
          ELSE /\ DropEventHandler
               /\ MainAfterRunApp("Err")
    /\ UNCHANGED <<appVars, raw_mode, restore_calls, producerVars, emitted, read_kind,
                   processed, update_calls, last_key, key_flip>>

\* terminal.draw(|f| draw(f, app))?
RunAppDraw ==
    /\ mainPc = "draw"
    /\ renders_since' = renders_since + 1
    /\ last_frame' = appVars
    /\ \E drawn \in BOOLEAN :
          IF drawn
          THEN /\ mainPc' = "next"
               /\ UNCHANGED <<run_result, main_result, chanVars>>
          ELSE /\ DropEventHandler
               /\ MainAfterRunApp("Err")
    /\ UNCHANGED <<appVars, raw_mode, restore_calls, producerVars, emitted, read_kind,
                   processed, update_calls, last_key, key_flip>>

\* Receiver::recv returns: an event is queued, or no Sender is left
RecvReturns == chan # <<>> \/ senders = 0

\* a loop with neither `break`
LoopBreaksNever(ev, quit) == FALSE

\* the loop is left after an event: handle_key returned true, or should_quit
LoopBreaks(ev, quit) == (ev[1] = "Input" /\ HandleKeyResult(ev[2])) \/ quit

\* a loop that draws only once, before the first event
AfterEventNoDraw(ev, quit) == IF LoopBreaks(ev, quit) THEN "break" ELSE "next"

\* where the loop goes after an event
AfterEvent(ev, quit) == IF LoopBreaks(ev, quit) THEN "break" ELSE "draw"

\* match event_handler.next() { .. } and the check of should_quit after it
RunAppNext ==
    /\ mainPc = "next"
    /\ RecvReturns
    /\ IF chan = <<>>
       THEN /\ DropEventHandler
            /\ MainAfterRunApp("Ok")
            /\ UNCHANGED <<appVars, processed, update_calls, last_key, key_flip,
                           renders_since>>
       ELSE LET ev == ChanRecv(chan)
            IN  /\ processed' = Append(processed, ev)
                /\ renders_since' = 0
                /\ IF ev[1] = "Input" THEN HandleKey(ev[2]) ELSE Update
                /\ IF AfterEvent(ev, should_quit') = "break"
                   THEN /\ DropEventHandler
                        /\ MainAfterRunApp("Ok")
                   ELSE /\ chan' = ChanRest(chan)
                        /\ mainPc' = AfterEvent(ev, should_quit')
                        /\ UNCHANGED <<run_result, main_result, senders, receiver>>
    /\ UNCHANGED <<raw_mode, restore_calls, producerVars, emitted, read_kind, last_frame>>

\* restore_terminal(&mut terminal)?; Ok(()): it succeeds, or fails at
\* disable_raw_mode, or fails after it
MainRestoreTerminal ==
    /\ mainPc = "restore_terminal"
    /\ restore_calls' = restore_calls + 1
    /\ \E outcome \in {"ok", "raw_mode_failed", "screen_failed"} :
          /\ raw_mode' = (outcome = "raw_mode_failed")
          /\ main_result' = IF outcome = "ok" THEN "Ok" ELSE "Err"
    /\ mainPc' = "exit"
    /\ UNCHANGED <<appVars, run_result, producerVars, chanVars, histVars>>

MainNext == MainInitTerminal \/ RunAppStart \/ RunAppDraw \/ RunAppNext \/ MainRestoreTerminal

(***************************************************************************)
(* Spec: the dashboard process of main.rs.                                 *)
(***************************************************************************)
Init ==
    /\ AppDefault
    /\ mainPc = "init_terminal" /\ run_result = "none" /\ main_result = "none"
    /\ raw_mode = FALSE /\ restore_calls = 0
    /\ producerPc = "unborn" /\ elapsed = 0 /\ timeout = 0
    /\ chan = <<>> /\ senders = 0 /\ receiver = FALSE
    /\ emitted = <<>> /\ read_kind = "none" /\ processed = <<>> /\ update_calls = 0
    /\ last_key = "none" /\ key_flip = FALSE
    /\ renders_since = 0 /\ last_frame = <<>>

Next == MainNext \/ ProducerNext

Spec == Init /\ [][Next]_vars

\* both threads are scheduled as long as they can take a step
FairSpec == Spec /\ WF_vars(MainNext) /\ WF_vars(ProducerNext)

(***************************************************************************)
(* Properties.                                                             *)
(***************************************************************************)
Last(s) == s[Len(s)]

\* C1: with no task selected and a non-empty registry, select_next (Down)
\* and select_previous (Up) each select the first id of task_ids (index 0).
C1_NoSelectionSelectsFirst ==
    [][(selected_task_id = None /\ Len(task_ids) > 0 /\ selected_task_id' # None)
          => selected_task_id' = task_ids[1]]_vars

\* C2: once the producer has stopped on a failed poll or read, the
\* application loop eventually terminates and the dashboard ends.
C2_ProducerFailureEndsLoop == (producerPc = "panicked") ~> (mainPc = "exit")

\* C3: restore_terminal is invoked on every exit path of the run, after a
\* normal quit and also when run_app returns an error.
C3_TeardownOnEveryExit ==
    (mainPc = "exit" /\ run_result # "none") => restore_calls = 1

\* C4 (as claimed): every state produced by a transition, the one produced by
\* the quit key included, is rendered once before the loop terminates.
C4_EveryStateRenderedBeforeExit ==
    (run_result # "none" /\ processed # <<>>)
        => (renders_since = 1 /\ last_frame = appVars)

\* C4 (amended): render runs at the top of the loop, so the state produced by
\* an event other than a quit key is rendered exactly once before the next
\* receive or the end of the loop, and the state produced by a quit key is
\* never rendered.
C4_RenderedOnceUnlessQuit ==
    /\ renders_since \in {0, 1}
    /\ mainPc = "draw" => renders_since = 0
    /\ mainPc = "next" => (renders_since = 1 /\ last_frame = appVars)
    /\ (run_result # "none" /\ ~should_quit) => (renders_since = 1 /\ last_frame = appVars)
    /\ (run_result # "none" /\ should_quit) => (renders_since = 0 /\ last_frame # appVars)

C4_Witness ==
    /\ mainPc = "next"
    /\ Len(processed) = 2
    /\ renders_since = 1
    /\ last_frame = appVars

\* C5: the events the loop has processed are at every moment a prefix of the
\* events the producer has emitted (in order, none twice), and while the loop
\* runs every emitted event is either processed or still queued.
C5_ProcessedIsPrefixOfEmitted ==
    /\ Len(processed) <= Len(emitted)
    /\ processed = SubSeq(emitted, 1, Len(processed))
    /\ receiver => emitted = processed \o chan

C5_Witness ==
    /\ Len(processed) = 2
    /\ processed[1] # processed[2]
    /\ Len(emitted) = 3
    /\ receiver

\* C6: processing a quit key (q or Esc) sets should_quit and ends the loop
\* with that event: afterwards no queued event is processed, no state is
\* changed and no render call is made.
C6_QuitEndsLoop ==
    [][/\ should_quit => (/\ processed' = processed
                          /\ renders_since' = renders_since
                          /\ UNCHANGED appVars)
       /\ (processed' # processed /\ Last(processed') \in {Input("q"), Input("Esc")})
             => (should_quit' /\ run_result' = "Ok")]_vars

C6_Witness ==
    /\ should_quit
    /\ Last(processed) = Input("Esc")
    /\ Len(emitted) > Len(processed)
    /\ mainPc = "exit"

\* C7: the selected id is unset or an id of task_ids, task_ids and the task
\* mapping hold the same ids, each once, and the task set is the startup one.
C7_SelectionAndRegistryInSync ==
    /\ selected_task_id = None \/ \E j \in 1..Len(task_ids) : task_ids[j] = selected_task_id
    /\ {task_ids[j] : j \in 1..Len(task_ids)} = DOMAIN tasks
    /\ Cardinality(DOMAIN tasks) = Len(task_ids)
    /\ task_ids = [i \in 1..NumTasks |-> i]

C7_Witness ==
    /\ selected_task_id = NumTasks
    /\ update_calls > 0
    /\ tab_index = 2

\* C8: one update adds the step 0.01 to the progress of every Running task,
\* makes it Completed with progress exactly 1.0 when the sum is >= 1.0
\* (0.991 -> 1.0, Completed), and leaves every other task as it is.
C8_UpdateAdvancesRunningByOneStep ==
    [][update_calls' # update_calls =>
          \A id \in DOMAIN tasks :
             LET t == tasks[id]
                 u == tasks'[id]
                 p == F64Add(t.progress, Step)
             IN  /\ (t.status = "Running" /\ F64Ge(p, F64One))
                       => u = [status |-> "Completed", progress |-> F64One]
                 /\ (t.status = "Running" /\ ~F64Ge(p, F64One))
                       => u = [status |-> "Running", progress |-> p]
                 /\ t.status # "Running" => u = t
                 /\ (t.status = "Running" /\ t.progress = F64_0_991)
                       => (u.status = "Completed" /\ u.progress = F64One)]_vars

C8_Witness ==
    /\ update_calls = 1
    /\ \E id \in DOMAIN tasks :
          tasks[id].status = "Running" /\ tasks[id].progress = F64Add(Tenth(5), Step)
    /\ \E id \in DOMAIN tasks : tasks[id].status = "Completed"
    /\ \E id \in DOMAIN tasks : tasks[id].status = "Pending"

\* C9: from the startup task set, every progress stays within [0.0, 1.0] and
\* every Completed task has progress exactly 1.0.
C9_ProgressInRange ==
    \A id \in DOMAIN tasks :
       /\ F64Ge(tasks[id].progress, F64Zero)
       /\ F64Ge(F64One, tasks[id].progress)
       /\ tasks[id].status = "Completed" => tasks[id].progress = F64One

C9_Witness ==
    /\ tasks[1].status = "Completed"
    /\ tasks[1].progress = F64One

\* C10: progress never decreases, a Completed or Failed task never changes
\* again, and the only change of status is Running -> Completed.
C10_MonotoneAndTerminal ==
    [][\A id \in DOMAIN tasks :
          /\ F64Ge(tasks'[id].progress, tasks[id].progress)
          /\ tasks[id].status \in {"Completed", "Failed"} => tasks'[id] = tasks[id]
          /\ tasks'[id].status # tasks[id].status
                => (tasks[id].status = "Running" /\ tasks'[id].status = "Completed")]_vars

C10_Witness ==
    /\ tasks[9].status = "Completed"
    /\ tasks[5].status = "Running"
    /\ tasks[3].status = "Failed"

\* a step that is a call of handle_key with the key `code`
KeyStep(code) == key_flip' # key_flip /\ last_key' = code

\* a step that is a call of update
UpdateStep == update_calls' # update_calls

\* the 1-based place of id in ids
IndexOf(ids, id) == CHOOSE j \in 1..Len(ids) : ids[j] = id

Selected == selected_task_id # None /\ \E j \in 1..Len(task_ids) : task_ids[j] = selected_task_id

\* the selection after n calls of select_next
RECURSIVE SelectNextTimes(_, _, _)
SelectNextTimes(n, ids, sel) ==
    IF n = 0 THEN sel ELSE SelectNextTimes(n - 1, ids, NextTask(ids, sel))

\* C11: on a registry of N >= 1 tasks with a task selected, N consecutive
\* select_next calls lead back to the selected task, and the selection is
\* always unset or an id of the registry.
C11_CycleClosure ==
    /\ selected_task_id = None \/ \E j \in 1..Len(task_ids) : task_ids[j] = selected_task_id
    /\ Selected => SelectNextTimes(Len(task_ids), task_ids, selected_task_id) = selected_task_id
    /\ Selected => \A n \in 1..(Len(task_ids) - 1) :
                      SelectNextTimes(n, task_ids, selected_task_id) # selected_task_id

C11_Witness ==
    /\ Len(task_ids) = MaxTasks
    /\ last_key = "Down"
    /\ selected_task_id = task_ids[1]

\* C12: with a task selected, select_next goes from the last index to index
\* 0 and otherwise to index+1; select_previous goes from index 0 to the last
\* index and otherwise to index-1.
C12_WrapAround ==
    [][/\ (KeyStep("Down") /\ Selected) =>
             LET j == IndexOf(task_ids, selected_task_id)
             IN  selected_task_id' = IF j = Len(task_ids) THEN task_ids[1] ELSE task_ids[j + 1]
       /\ (KeyStep("Up") /\ Selected) =>
             LET j == IndexOf(task_ids, selected_task_id)
             IN  selected_task_id' = IF j = 1 THEN task_ids[Len(task_ids)] ELSE task_ids[j - 1]]_vars

C12_Witness ==
    /\ Len(task_ids) >= 3
    /\ last_key = "Up"
    /\ selected_task_id = task_ids[Len(task_ids)]
    /\ update_calls = 0

\* C13: on a registry with no task, select_next and select_previous leave the
\* selection unset and change nothing else.
C13_EmptyRegistryNoOp ==
    [][((KeyStep("Down") \/ KeyStep("Up")) /\ Len(task_ids) = 0) =>
          /\ selected_task_id = None
          /\ selected_task_id' = None
          /\ UNCHANGED <<tasks, task_ids, should_quit, tab_index, update_calls>>]_vars

C13_Witness ==
    /\ Len(task_ids) = 0
    /\ last_key = "Down"
    /\ selected_task_id = None

\* C14: tab_index is always 0, 1 or 2; the next-tab key takes it 0 -> 1 -> 2
\* -> 0 and the previous-tab key 0 -> 2 -> 1 -> 0.
C14_TabCycle ==
    /\ [](tab_index \in {0, 1, 2})
    /\ [][/\ KeyStep("Tab") =>
                tab_index' = CASE tab_index = 0 -> 1 [] tab_index = 1 -> 2 [] tab_index = 2 -> 0
          /\ KeyStep("BackTab") =>
                tab_index' = CASE tab_index = 0 -> 2 [] tab_index = 2 -> 1 [] tab_index = 1 -> 0]_vars

C14_Witness ==
    /\ last_key = "BackTab"
    /\ tab_index = 2
    /\ key_flip

\* C15: a tab key changes only tab_index, Up and Down only the selection, a
\* quit key only should_quit, any other key nothing, and a tick only the
\* progress and status of tasks.
C15_OnePartPerEvent ==
    [][/\ (KeyStep("Tab") \/ KeyStep("BackTab")) =>
             UNCHANGED <<tasks, task_ids, selected_task_id, should_quit>>
       /\ (KeyStep("Down") \/ KeyStep("Up")) =>
             UNCHANGED <<tasks, task_ids, tab_index, should_quit>>
       /\ (KeyStep("q") \/ KeyStep("Esc")) =>
             UNCHANGED <<tasks, task_ids, selected_task_id, tab_index>>
       /\ KeyStep("Other") => UNCHANGED appVars
       /\ UpdateStep =>
             /\ UNCHANGED <<task_ids, selected_task_id, tab_index, should_quit>>
             /\ DOMAIN tasks' = DOMAIN tasks]_vars

C15_Witness ==
    /\ last_key = "Tab"
    /\ tab_index = 1
    /\ selected_task_id # None
    /\ update_calls > 0
    /\ ~should_quit

ProducerLoop == {"timeout", "poll", "read", "tick"}

\* C16 (as claimed): once the loop has stopped (here: after run_app returned
\* Ok) and the Receiver is gone, the producer eventually leaves its loop on a
\* failed send, without an error.
C16_ProducerEventuallyReturns ==
    (~receiver /\ run_result = "Ok" /\ producerPc \in ProducerLoop) ~> (producerPc = "returned")

\* C16 (amended): once the Receiver is gone the producer emits nothing more,
\* a wait that times out always makes the Tick due, and the next send attempt
\* (of an Input, or of the due Tick) makes it return without an error; it gets
\* to that attempt only while the process lives and poll and read succeed.
C16_ClosedChannelEndsProducer ==
    [][/\ (producerPc = "poll" /\ producerPc' = "tick") => elapsed' >= TickRate
       /\ (~receiver /\ producerPc \in ProducerLoop /\ producerPc' # producerPc) =>
             /\ emitted' = emitted
             /\ chan' = chan
             /\ producerPc = "read" => producerPc' \in {"returned", "tick", "panicked"}
             /\ (producerPc = "tick" /\ elapsed >= TickRate) => producerPc' = "returned"
             /\ producerPc' = "returned" =>
                   (producerPc \in {"read", "tick"} /\ senders' = senders - 1)]_vars

C16_Witness ==
    /\ producerPc = "returned"
    /\ mainPc = "restore_terminal"
    /\ ~receiver

\* C17: a Tick is emitted only at a check that finds the time since the last
\* tick >= the tick period, that check emits exactly one Tick however long
\* the time was, and the last-tick time becomes the current time.
C17_OneTickPerDueCheck ==
    [][/\ (emitted' # emitted /\ Last(emitted') = Tick) =>
             /\ producerPc = "tick" /\ producerPc' = "timeout"
             /\ elapsed >= TickRate
             /\ emitted' = Append(emitted, Tick)
             /\ chan' = Append(chan, Tick)
             /\ elapsed' = 0
       /\ (producerPc = "tick" /\ producerPc' # producerPc /\ elapsed < TickRate) =>
             (emitted' = emitted /\ elapsed' = elapsed)]_vars

C17_Witness ==
    /\ Len(emitted) >= 2
    /\ emitted[1] = Tick
    /\ emitted[2] = Tick
    /\ elapsed = 0
    /\ producerPc = "timeout"

NumTicks(seq) == Cardinality({j \in 1..Len(seq) : seq[j] = Tick})

\* k * x in f64, k an integer: the exact product rounded once
RECURSIVE LimbTimes(_, _)
LimbTimes(k, x) == IF k = 0 THEN F64Zero ELSE LimbSum(LimbTimes(k - 1, x), x)

F64TimesInt(k, x) == F64Round(LimbTimes(k, x))

\* a task after k ticks, each adding 0.01 to the progress it finds
RECURSIVE AfterTicks(_, _)
AfterTicks(task, k) ==
    IF k = 0 THEN task
    ELSE LET t == AfterTicks(task, k - 1)
             sum == F64Add(t.progress, Step)
         IN  IF t.status # "Running" THEN t
             ELSE IF F64Ge(sum, F64One)
                  THEN [status |-> "Completed", progress |-> F64One]
                  ELSE [status |-> "Running", progress |-> sum]

\* C18 (as claimed): after k processed Ticks a task that started Running with
\* progress p has progress min(1.0, p + k*0.01) and is Completed exactly when
\* p + k*0.01 >= 1.0.
C18_ClosedForm ==
    \A id \in DOMAIN tasks :
       DefaultStatus(id) = "Running" =>
          LET sum == F64Add(DefaultProgress(id), F64TimesInt(NumTicks(processed), Step))
          IN  /\ tasks[id].progress = IF F64Ge(sum, F64One) THEN F64One ELSE sum
              /\ tasks[id].status = "Completed" <=> F64Ge(sum, F64One)

\* C18 (amended): Ticks are never coalesced: every Tick emitted is queued or
\* processed, k processed Ticks are k calls of update, and a task that
\* started Running holds the result of k successive f64 additions of 0.01,
\* clamped to 1.0 and Completed from the first sum >= 1.0.
C18_TicksAppliedOneByOne ==
    /\ update_calls = NumTicks(processed)
    /\ receiver => NumTicks(emitted) = NumTicks(processed) + NumTicks(chan)
    /\ \A id \in DOMAIN tasks :
          DefaultStatus(id) = "Running" =>
             tasks[id] = AfterTicks(DefaultTasks[id], NumTicks(processed))

C18_Witness ==
    /\ NumTicks(processed) = 2
    /\ NumTicks(chan) = 1
    /\ update_calls = 2
    /\ tasks[1].progress # F64Add(Tenth(1), F64TimesInt(2, Step))

\* a step of the producer thread
ProducerStep == producerPc # "unborn" /\ producerVars' # producerVars

\* C19: the App is changed only by the application loop, while it handles a
\* received event; a step of the producer changes its own timer and the
\* channel and nothing of the App or of the main thread.
C19_SingleMutator ==
    [][/\ ProducerStep =>
             /\ UNCHANGED <<appVars, mainVars, receiver, processed, update_calls,
                            last_key, key_flip, renders_since, last_frame>>
             /\ chan' = chan \/ (emitted' # emitted /\ chan' = Append(chan, Last(emitted')))
       /\ appVars' # appVars =>
             /\ mainPc = "next"
             /\ Len(processed') = Len(processed) + 1
             /\ UNCHANGED producerVars]_vars

C19_Witness ==
    /\ update_calls = 1
    /\ selected_task_id # None
    /\ producerPc = "timeout"
    /\ chan # <<>>

\* C20: the wait timeout is max(0, tick period - time since the last tick),
\* never negative, and emitting an Input leaves the last-tick time unchanged.
C20_TimeoutNeverNegative ==
    /\ [](timeout \in 0..TickRate)
    /\ [][/\ (producerPc = "timeout" /\ producerPc' = "poll") =>
                timeout' = IF elapsed < TickRate THEN TickRate - elapsed ELSE 0
          /\ (emitted' # emitted /\ Last(emitted')[1] = "Input") =>
                (elapsed' = elapsed /\ producerPc' = "tick")]_vars

C20_Witness ==
    /\ producerPc = "poll"
    /\ timeout = 0
    /\ elapsed > TickRate
    /\ emitted # <<>>
    /\ Last(emitted)[1] = "Input"

\* the step emits an Input
InputEmitted == emitted' # emitted /\ Last(emitted')[1] = "Input"

\* C21: input cannot starve ticks. An Input emitted once the tick period has
\* elapsed takes the producer to the deadline check with the period still
\* elapsed, and from that check no Input is emitted before the Tick: the
\* producer leaves the check only by emitting the Tick (or by returning on a
\* closed channel). So at most one Input follows the end of the period.
C21_InputCannotStarveTicks ==
    [][/\ (TickDue(elapsed) /\ InputEmitted) =>
             (producerPc' = "tick" /\ TickDue(elapsed'))
       /\ (producerPc = "tick" /\ TickDue(elapsed)) => ~InputEmitted
       /\ (producerPc = "tick" /\ TickDue(elapsed) /\ producerPc' # "tick") =>
             \/ emitted' = Append(emitted, Tick) /\ producerPc' = "timeout"
             \/ ~receiver /\ producerPc' = "returned" /\ emitted' = emitted]_vars

\* an Input emitted from a poll that was entered with the period already
\* elapsed, and the Tick right after it
C21_Witness ==
    /\ Len(emitted) >= 2
    /\ emitted[Len(emitted) - 1][1] = "Input"
    /\ Last(emitted) = Tick
    /\ timeout = 0
    /\ producerPc = "timeout"

\* how many tasks of the mapping ts have the status st
CountIn(ts, st) == Cardinality({id \in DOMAIN ts : ts[id].status = st})

\* C22: after 100 Ticks no task is Running any more (every task that was
\* Running is Completed); once no task is Running a Tick changes nothing; the
\* number of Running tasks never increases and the numbers of Pending and of
\* Failed tasks never change.
C22_RunningTasksComplete ==
    /\ [](update_calls >= 100 =>
             /\ CountIn(tasks, "Running") = 0
             /\ \A id \in DOMAIN tasks :
                   DefaultStatus(id) = "Running" => tasks[id].status = "Completed")
    /\ [][/\ CountIn(tasks', "Running") <= CountIn(tasks, "Running")
          /\ CountIn(tasks', "Pending") = CountIn(tasks, "Pending")
          /\ CountIn(tasks', "Failed") = CountIn(tasks, "Failed")
          /\ (UpdateStep /\ CountIn(tasks, "Running") = 0) => tasks' = tasks]_vars

C22_Witness ==
    /\ update_calls = 100
    /\ CountIn(tasks, "Running") = 0
    /\ CountIn(tasks, "Completed") = 10
    /\ CountIn(tasks, "Pending") = 4
    /\ CountIn(tasks, "Failed") = 5

\* the App of App::default, as a value of appVars
InitialApp == <<DefaultTasks, None, DefaultTaskIds, FALSE, 0>>

\* the App after one event is handled in full, as a value of appVars
AppAfterEvent(app, ev) ==
    IF ev = Tick
    THEN <<[id \in DOMAIN app[1] |-> UpdateTask(app[1][id])], app[2], app[3], app[4], app[5]>>
    ELSE LET code == ev[2]
         IN  <<app[1],
               CASE code = "Down" -> NextTask(app[3], app[2])
                 [] code = "Up" -> PreviousTask(app[3], app[2])
                 [] OTHER -> app[2],
               app[3],
               app[4] \/ code \in {"q", "Esc"},
               CASE code = "Tab" -> (app[5] + 1) % 3
                 [] code = "BackTab" -> (app[5] + 2) % 3
                 [] OTHER -> app[5]>>

\* the App after the events of seq are handled in full, one after the other
RECURSIVE AppAfter(_)
AppAfter(seq) ==
    IF seq = <<>> THEN InitialApp
    ELSE AppAfterEvent(AppAfter(SubSeq(seq, 1, Len(seq) - 1)), Last(seq))

\* the step is a call of terminal.draw
DrawStep == mainPc = "draw" /\ mainPc' # "draw"

\* C23: no event is processed before the first frame is drawn, the first
\* frame shows the initial state, and every frame shows the state that the
\* events processed so far, each handled in full, lead to.
C23_RenderShowsProcessedEvents ==
    /\ []((processed # <<>> \/ appVars # InitialApp) => last_frame # <<>>)
    /\ [][/\ DrawStep => (last_frame' = AppAfter(processed) /\ processed' = processed)
          /\ (DrawStep /\ last_frame = <<>>) => last_frame' = InitialApp
          /\ processed' # processed => last_frame = AppAfter(processed)]_vars

C23_Witness ==
    /\ mainPc = "next"
    /\ Len(processed) = 2
    /\ NumTicks(processed) = 1
    /\ last_frame = AppAfter(processed)
    /\ last_frame # InitialApp
    /\ last_frame[2] # None

QuitInputs == {Input("q"), Input("Esc")}

\* C24: should_quit is false until a quit key (q or Esc) is processed, is set
\* by processing one, and is never reset; an Input ends the loop through the
\* value of handle_key exactly when it is a quit key; and the loop stops
\* after an event exactly when should_quit is then true (the other way out
\* of the match is a failed receive).
C24_QuitFlag ==
    /\ [](processed = <<>> => ~should_quit)
    /\ [][/\ should_quit => should_quit'
          /\ (~should_quit /\ should_quit') =>
                (processed' # processed /\ Last(processed') \in QuitInputs)
          /\ (processed' # processed /\ Last(processed')[1] = "Input") =>
                (run_result' # "none" <=> Last(processed') \in QuitInputs)
          /\ processed' # processed => (run_result' # "none" <=> should_quit')
          /\ (mainPc = "next" /\ run_result' # "none") =>
                (should_quit' \/ (chan = <<>> /\ senders = 0))]_vars

C24_Witness ==
    /\ should_quit
    /\ run_result = "Ok"
    /\ Len(processed) = 3
    /\ processed[1] = Tick
    /\ processed[2] = Input("Tab")
    /\ processed[3] = Input("q")

\* C25: with a task selected, select_previous undoes select_next and
\* select_next undoes select_previous: after either key, the other one leads
\* back to the selection the key started from; and no step unsets a selection.
C25_NextPreviousInverse ==
    [][/\ (KeyStep("Down") /\ Selected) =>
             PreviousTask(task_ids', selected_task_id') = selected_task_id
       /\ (KeyStep("Up") /\ Selected) =>
             NextTask(task_ids', selected_task_id') = selected_task_id
       /\ selected_task_id # None => selected_task_id' # None]_vars

C25_Witness ==
    /\ Len(task_ids) >= 2
    /\ last_key = "Down"
    /\ update_calls > 0
    /\ selected_task_id = task_ids[1]
    /\ PreviousTask(task_ids, selected_task_id) = task_ids[Len(task_ids)]

\* the step is the producer's call of event::read
ReadStep == producerPc = "read" /\ producerPc' # "read"

====
